---- MODULE Spec2Model ----
\* Posture-scoring engine of shoulder-presentation-eval:
\*   lib/postureMetrics  (horizontalScore, shoulderTiltScore, shoulderSquareness)
\*   components/CameraInput (landmark EMA smoothing and rolling score buffers)
EXTENDS Integers, Sequences, FiniteSets, TLC

(***************************************************************************)
(* Numbers.  A JavaScript number is modelled as a fixed-point value or one *)
(* of NaN, +Infinity, -Infinity.  Coordinates (x, y, z) are counted in     *)
(* units of EPSILON / 200, visibilities and scores in units of 1 / ONE,    *)
(* angles in whole degrees.                                                *)
(***************************************************************************)
ONE == 1000

Fin(n) == [k |-> "fin", v |-> n]

NaN == [k |-> "nan", v |-> 0]

PInf == [k |-> "inf", v |-> 1]

NInf == [k |-> "inf", v |-> -1]

\* the value of a missing map entry or of a missing optional field
Undefined == [k |-> "undef", v |-> 0]

IsNaN(a) == a.k = "nan"

\* !Number.isNaN(a)
IsNotNaN(a) == a.k # "nan"

\* Number.isFinite(a)
IsFinite(a) == a.k = "fin"

\* floor(n / d + 1/2), d > 0
RoundDiv(n, d) == (2 * n + d) \div (2 * d)

RECURSIVE ISqrtIn(_, _, _)
ISqrtIn(n, lo, hi) ==
  IF lo >= hi THEN lo
  ELSE LET mid == (lo + hi + 1) \div 2
       IN  IF mid * mid <= n THEN ISqrtIn(n, mid, hi) ELSE ISqrtIn(n, lo, mid - 1)

\* floor(sqrt(n)), 0 <= n
ISqrt(n) == ISqrtIn(n, 0, IF n < 46340 THEN n ELSE 46340)

Neg(a) == IF a.k = "nan" THEN NaN ELSE [k |-> a.k, v |-> 0 - a.v]

\* Math.abs left out
AbsForgotten(a) == a

\* Math.abs(a)
Abs(a) == IF a.k = "nan" THEN NaN ELSE [k |-> a.k, v |-> IF a.v < 0 THEN 0 - a.v ELSE a.v]

Add(a, b) ==
  CASE a.k = "nan" \/ b.k = "nan" -> NaN
    [] a.k = "fin" /\ b.k = "fin" -> Fin(a.v + b.v)
    [] a.k = "inf" /\ b.k = "inf" -> IF a.v = b.v THEN a ELSE NaN
    [] a.k = "inf"                -> a
    [] OTHER                      -> b

Sub(a, b) == Add(a, Neg(b))

\* a < b; every comparison with NaN is false
Lt(a, b) ==
  /\ a.k # "nan"
  /\ b.k # "nan"
  /\ CASE a.k = "fin" /\ b.k = "fin" -> a.v < b.v
       [] a.k = "inf" /\ b.k = "inf" -> a.v < b.v
       [] a.k = "inf"                -> a.v < 0
       [] OTHER                      -> b.v > 0

Gt(a, b) == Lt(b, a)

Sign(n) == IF n < 0 THEN -1 ELSE IF n > 0 THEN 1 ELSE 0

\* a * b where a is a fraction counted in 1/ONE; the result has b's unit
Mul(a, b) ==
  CASE a.k = "nan" \/ b.k = "nan" -> NaN
    [] a.k = "fin" /\ b.k = "fin" -> Fin(RoundDiv(a.v * b.v, ONE))
    [] OTHER -> IF a.v = 0 \/ b.v = 0 THEN NaN
                ELSE [k |-> "inf", v |-> Sign(a.v) * Sign(b.v)]

\* a / b for a, b of one unit; the result is counted in 1/ONE
Div(a, b) ==
  CASE a.k = "nan" \/ b.k = "nan" -> NaN
    [] a.k = "fin" /\ b.k = "fin" ->
         IF b.v = 0
         THEN IF a.v = 0 THEN NaN ELSE [k |-> "inf", v |-> Sign(a.v)]
         ELSE Fin(Sign(b.v) * RoundDiv(Sign(b.v) * a.v * ONE, Sign(b.v) * b.v))
    [] a.k = "inf" /\ b.k = "inf" -> NaN
    [] a.k = "inf" -> [k |-> "inf", v |-> a.v * (IF b.v < 0 THEN -1 ELSE 1)]
    [] OTHER       -> Fin(0)

\* Math.hypot(a, b)
Hypot(a, b) ==
  CASE a.k = "inf" \/ b.k = "inf" -> PInf
    [] a.k = "nan" \/ b.k = "nan" -> NaN
    [] OTHER -> Fin(ISqrt(a.v * a.v + b.v * b.v))

\* Math.sqrt(a) of a value counted in 1/ONE
Sqrt(a) ==
  CASE a.k = "nan" -> NaN
    [] a.k = "inf" -> IF a.v > 0 THEN PInf ELSE NaN
    [] OTHER       -> IF a.v < 0 THEN NaN ELSE Fin(ISqrt(a.v * ONE))

\* round(1000 * tan(k degrees)), k = 0 .. 89
TanTable ==
  << 0, 17, 35, 52, 70, 87, 105, 123, 141, 158,
     176, 194, 213, 231, 249, 268, 287, 306, 325, 344,
     364, 384, 404, 424, 445, 466, 488, 510, 532, 554,
     577, 601, 625, 649, 675, 700, 727, 754, 781, 810,
     839, 869, 900, 933, 966, 1000, 1036, 1072, 1111, 1150,
     1192, 1235, 1280, 1327, 1376, 1428, 1483, 1540, 1600, 1664,
     1732, 1804, 1881, 1963, 2050, 2145, 2246, 2356, 2475, 2605,
     2747, 2904, 3078, 3271, 3487, 3732, 4011, 4331, 4705, 5145,
     5671, 6314, 7115, 8144, 9514, 11430, 14301, 19081, 28636, 57290 >>

\* a quarter turn (PI / 2) in degrees
QUARTER == 90

RECURSIVE AtanIn(_, _, _)
AtanIn(y, x, d) ==
  IF d < QUARTER - 1 /\ TanTable[d + 2] * x <= y * 1000
  THEN AtanIn(y, x, d + 1)
  ELSE d

\* Math.atan2(y, x) for y >= 0, x >= 0, in whole degrees (rounded down)
Atan2(y, x) ==
  CASE y.k = "nan" \/ x.k = "nan" -> NaN
    [] y.k = "inf" /\ x.k = "inf" -> Fin(QUARTER \div 2)
    [] y.k = "inf"                -> Fin(QUARTER)
    [] x.k = "inf"                -> Fin(0)
    [] y.v = 0                    -> Fin(0)
    [] x.v = 0                    -> Fin(QUARTER)
    [] OTHER                      -> Fin(AtanIn(y.v, x.v, 0))

(***************************************************************************)
(* lib/postureMetrics                                                      *)
(***************************************************************************)
L_SHOULDER == 11

R_SHOULDER == 12

\* 0.3, in units of 1 / ONE
VIS_THRESHOLD == 300

\* 1e-6, in coordinate units
EPSILON == 200

\* a ?? b
OrElse(a, b) == IF a = Undefined THEN b ELSE a

\* isVisible with >= in place of >
isVisibleInclusive(l) ==
  l # Undefined /\ ~Lt(OrElse(l.visibility, Fin(ONE)), Fin(VIS_THRESHOLD))

isVisible(l) == l # Undefined /\ Gt(OrElse(l.visibility, Fin(ONE)), Fin(VIS_THRESHOLD))

blank ==
  [ score |-> Fin(0), angleDeg |-> Fin(QUARTER), dx |-> Fin(0), dz |-> Fin(0),
    visSym |-> Fin(0),
    left  |-> [x |-> NaN, y |-> NaN, z |-> NaN, v |-> Fin(0)],
    right |-> [x |-> NaN, y |-> NaN, z |-> NaN, v |-> Fin(0)] ]

\* the symmetry term with the absolute value forgotten
visSymNoAbs(ls, rs) ==
  Sub(Fin(ONE), Sub(OrElse(ls.visibility, Fin(ONE)), OrElse(rs.visibility, Fin(ONE))))

\* 1 - |vL - vR|, an absent visibility counting as 1
visSymOf(ls, rs) ==
  Sub(Fin(ONE), Abs(Sub(OrElse(ls.visibility, Fin(ONE)), OrElse(rs.visibility, Fin(ONE)))))

\* the detailed score with the left visibility echoed on both sides
horizontalScoreDetailedLeftEcho(lm) ==
  LET ls == lm[L_SHOULDER]
      rs == lm[R_SHOULDER]
  IN  IF ~isVisible(ls) \/ ~isVisible(rs) THEN blank
      ELSE IF ~IsFinite(ls.z) \/ ~IsFinite(rs.z) THEN blank
      ELSE LET dx  == Sub(ls.x, rs.x)
               dz  == Sub(ls.z, rs.z)
               len == Hypot(dx, dz)
           IN  IF Lt(len, Fin(EPSILON)) THEN blank
               ELSE LET absDx  == Abs(dx)
                        absDz  == Abs(dz)
                        geom   == Div(absDx, len)
                        visSym == visSymOf(ls, rs)
                        angle  == Atan2(absDz, absDx)
                    IN  [ score |-> Mul(visSym, geom), angleDeg |-> angle,
                          dx |-> absDx, dz |-> absDz, visSym |-> visSym,
                          left  |-> [x |-> ls.x, y |-> ls.y, z |-> ls.z,
                                     v |-> OrElse(ls.visibility, Fin(0))],
                          right |-> [x |-> rs.x, y |-> rs.y, z |-> rs.z,
                                     v |-> OrElse(ls.visibility, Fin(0))] ]

horizontalScoreDetailed(lm) ==
  LET ls == lm[L_SHOULDER]
      rs == lm[R_SHOULDER]
  IN  IF ~isVisible(ls) \/ ~isVisible(rs) THEN blank
      ELSE IF ~IsFinite(ls.z) \/ ~IsFinite(rs.z) THEN blank
      ELSE LET dx  == Sub(ls.x, rs.x)
               dz  == Sub(ls.z, rs.z)
               len == Hypot(dx, dz)
           IN  IF Lt(len, Fin(EPSILON)) THEN blank
               ELSE LET absDx  == Abs(dx)
                        absDz  == Abs(dz)
                        geom   == Div(absDx, len)
                        visSym == visSymOf(ls, rs)
                        angle  == Atan2(absDz, absDx)
                    IN  [ score |-> Mul(visSym, geom), angleDeg |-> angle,
                          dx |-> absDx, dz |-> absDz, visSym |-> visSym,
                          left  |-> [x |-> ls.x, y |-> ls.y, z |-> ls.z,
                                     v |-> OrElse(ls.visibility, Fin(0))],
                          right |-> [x |-> rs.x, y |-> rs.y, z |-> rs.z,
                                     v |-> OrElse(rs.visibility, Fin(0))] ]

horizontalScore(lm) == horizontalScoreDetailed(lm).score

\* the tilt mapping dividing by PI instead of PI / 2
tiltOfAngleHalfTurn(angle) == Sub(Fin(ONE), Div(angle, Fin(2 * QUARTER)))

\* 1 - angle / (PI / 2)
tiltOfAngle(angle) == Sub(Fin(ONE), Div(angle, Fin(QUARTER)))

shoulderTiltScore(lm) ==
  LET ls == lm[L_SHOULDER]
      rs == lm[R_SHOULDER]
  IN  IF ~isVisible(ls) \/ ~isVisible(rs) THEN Fin(0)
      ELSE LET dx == Sub(ls.x, rs.x)
               dy == Sub(ls.y, rs.y)
           IN  IF Lt(Abs(dx), Fin(EPSILON)) /\ Lt(Abs(dy), Fin(EPSILON)) THEN Fin(0)
               ELSE LET angle == Atan2(Abs(dy), Abs(dx))
                    IN  tiltOfAngle(angle)

\* the arithmetic mean of the two scores in place of the geometric mean
squarenessArithmetic(lm) ==
  LET sYaw  == horizontalScore(lm)
      sRoll == shoulderTiltScore(lm)
      q     == Mul(Fin(ONE \div 2), Add(sYaw, sRoll))
  IN  IF IsNaN(q) THEN Fin(0) ELSE q

shoulderSquareness(lm) ==
  LET sYaw  == horizontalScore(lm)
      sRoll == shoulderTiltScore(lm)
      q     == Sqrt(Mul(sYaw, sRoll))
  IN  IF IsNaN(q) THEN Fin(0) ELSE q

\* the wrapper with the commented-out combined entry put back
computeAllMetricsCombined(lm) ==
  [ horizontalScore |-> horizontalScore(lm), shoulderTiltScore |-> shoulderTiltScore(lm),
    combinedScore |-> shoulderSquareness(lm) ]

computeAllMetrics(lm) ==
  [ horizontalScore |-> horizontalScore(lm), shoulderTiltScore |-> shoulderTiltScore(lm) ]

(***************************************************************************)
(* Inputs of the scoring functions.                                        *)
(***************************************************************************)
\* finite coordinates range over 0 .. MaxCoord half-EPSILON steps
MaxCoord == 2

Indices == {L_SHOULDER, R_SHOULDER}

FiniteCoords == { Fin(i * (EPSILON \div 2)) : i \in 0 .. MaxCoord }

\* depth may be non-finite
Depths == FiniteCoords \cup {NaN, PInf}

\* absent, 0.3, 0.4, 1 and an out-of-range 1.5
Visibilities == {Undefined, Fin(VIS_THRESHOLD), Fin(400), Fin(ONE), Fin(1500)}

Landmarks ==
  [x : FiniteCoords \cup {NaN}, y : FiniteCoords, z : Depths, visibility : Visibilities]

Poses == [Indices -> Landmarks \cup {Undefined}]

(***************************************************************************)
(* State.                                                                  *)
(*   lm, call, ret     a call of one scoring function: argument, function  *)
(*                     name, returned value                                *)
(*   smoothedPoseRef   CameraInput: the smoothed landmarks (null at mount) *)
(*   bufferRef         CameraInput: metric name -> recent raw scores       *)
(*   pose              what process() returned in the last loop iteration  *)
(*   scores, hDebug    the last arguments of onScores and onDebug          *)
(*   frames            number of renderLoop iterations started so far      *)
(*   rawLog            history: every result of computeAllMetrics so far   *)
(*   moves             history: how often the detected pose has changed    *)
(*   delivered         history: for each landmark object the smoothed      *)
(*                     state holds, its contents when process() returned it*)
(*   mode              App: which input is shown, "camera" or "upload"     *)
(*   ready             usePoseLandmarker of the mounted input: model loaded*)
(*   loop              the frame loop of the CameraInput instance mounted  *)
(*                     last: requested animation frames that have not run  *)
(*                     yet, and the iterations waiting in await process()  *)
(*   earlier           CameraInput instances replaced by a later mount     *)
(*                     whose frame loop is still alive: their refs, loop   *)
(*   analyses          ImageUpload: the analysed images                    *)
(*   mounts            history: how often CameraInput has been mounted     *)
(*   token             the token given to parseLabelToken                  *)
(*   hook              usePoseLandmarker of ImageUpload: the position of   *)
(*                     its loading function, its cancelled flag, whether   *)
(*                     landmarkerRef holds the landmarker, and whether the *)
(*                     landmarker exists, is open or has been closed       *)
(*   loading           useOcrLabel: the loading flag                       *)
(*   handlers          ImageUpload: the invocations of handleChange        *)
(***************************************************************************)
VARIABLES lm, call, ret, smoothedPoseRef, bufferRef, pose, scores, hDebug,
          frames, rawLog, moves, delivered, mode, ready, loop, earlier,
          analyses, mounts, token, hook, loading, handlers

vars == <<lm, call, ret, smoothedPoseRef, bufferRef, pose, scores, hDebug,
          frames, rawLog, moves, delivered, mode, ready, loop, earlier,
          analyses, mounts, token, hook, loading, handlers>>

metricVars == <<lm, call, ret>>

cameraVars ==
  <<smoothedPoseRef, bufferRef, pose, scores, hDebug, frames, rawLog, moves, delivered>>

appVars == <<mode, ready, loop, earlier, analyses, mounts>>

uploadVars == <<token, hook, loading, handlers>>

Null == [k |-> "null", v |-> 0]

\* null where a PoseLandmarks map is expected
NoPose == << >>

\* the refs of a CameraInput instance right after it is mounted
FreshCamera ==
  /\ smoothedPoseRef = NoPose
  /\ bufferRef = << >>
  /\ pose = NoPose
  /\ frames = 0
  /\ rawLog = << >>
  /\ moves = 0
  /\ delivered = NoPose

\* the refs and the App state right after App and CameraInput are mounted
CameraMounted ==
  /\ FreshCamera
  /\ scores = Null
  /\ hDebug = Null

\* no animation frame requested, no iteration waiting
NoLoop == [pending |-> 0, awaiting |-> {}]

\* App starts in camera mode; the pose model is still loading
AppMounted ==
  /\ mode = "camera"
  /\ ready = FALSE
  /\ loop = NoLoop
  /\ earlier = << >>
  /\ analyses = << >>
  /\ mounts = 1

\* camera mode with the model loaded and the next animation frame requested
LoopRunning ==
  /\ mode = "camera"
  /\ ready = TRUE
  /\ loop = [pending |-> 1, awaiting |-> {}]
  /\ earlier = << >>
  /\ analyses = << >>
  /\ mounts = 1

\* the handleChange invocations told apart
MaxHandlers == 2

\* an invocation of handleChange that has not been made
NotCalled == [pc |-> "idle", left |-> 0, pose |-> << >>, reply |-> [outcome |-> "none", content |-> << >>]]

\* ImageUpload with its hooks as constructed
ImageUploadFresh ==
  /\ hook = [load |-> "import", cancelled |-> FALSE, landmarkerRef |-> FALSE,
             landmarker |-> "none"]
  /\ loading = FALSE
  /\ handlers = [h \in 1 .. MaxHandlers |-> NotCalled]

\* no label is being read
UploadIdle ==
  /\ token = << >>
  /\ ImageUploadFresh

MetricsInit ==
  /\ lm \in Poses
  /\ call = "none"
  /\ ret = Undefined
  /\ CameraMounted
  /\ AppMounted
  /\ UploadIdle

CallHorizontalScoreDetailed ==
  /\ call = "none"
  /\ call' = "horizontalScoreDetailed"
  /\ ret' = horizontalScoreDetailed(lm)
  /\ UNCHANGED <<lm, cameraVars, appVars, uploadVars>>

CallHorizontalScore ==
  /\ call = "none"
  /\ call' = "horizontalScore"
  /\ ret' = horizontalScore(lm)
  /\ UNCHANGED <<lm, cameraVars, appVars, uploadVars>>

CallShoulderTiltScore ==
  /\ call = "none"
  /\ call' = "shoulderTiltScore"
  /\ ret' = shoulderTiltScore(lm)
  /\ UNCHANGED <<lm, cameraVars, appVars, uploadVars>>

CallShoulderSquareness ==
  /\ call = "none"
  /\ call' = "shoulderSquareness"
  /\ ret' = shoulderSquareness(lm)
  /\ UNCHANGED <<lm, cameraVars, appVars, uploadVars>>

CallComputeAllMetrics ==
  /\ call = "none"
  /\ call' = "computeAllMetrics"
  /\ ret' = computeAllMetrics(lm)
  /\ UNCHANGED <<lm, cameraVars, appVars, uploadVars>>

MetricsNext ==
  \/ CallHorizontalScoreDetailed
  \/ CallHorizontalScore
  \/ CallShoulderTiltScore
  \/ CallShoulderSquareness
  \/ CallComputeAllMetrics

SpecMetrics == MetricsInit /\ [][MetricsNext]_vars

(***************************************************************************)
(* components/CameraInput: the frame loop                                  *)
(***************************************************************************)
\* 0.2, in units of 1 / ONE
SMOOTH_ALPHA == 200

BUFFER_SIZE == 30

\* one EMA step with the weights exchanged
emaSwapped(p, s) ==
  Add(Mul(Sub(Fin(ONE), Fin(SMOOTH_ALPHA)), p), Mul(Fin(SMOOTH_ALPHA), s))

\* the raw value added in full
emaUnweighted(p, s) ==
  Add(p, Mul(Sub(Fin(ONE), Fin(SMOOTH_ALPHA)), s))

\* SMOOTH_ALPHA * p + (1 - SMOOTH_ALPHA) * s
ema(p, s) ==
  Add(Mul(Fin(SMOOTH_ALPHA), p), Mul(Sub(Fin(ONE), Fin(SMOOTH_ALPHA)), s))

\* the loop body for one index of the frame: s is the landmark object kept
\* in the smoothed state (or p itself); only its x, y and z are assigned
smoothLandmark(p, old) ==
  LET s == OrElse(old, p)
  IN  [s EXCEPT !.x = ema(p.x, s.x), !.y = ema(p.y, s.y), !.z = ema(p.z, s.z)]

\* only the indices of the current frame are kept
smoothTouchedOnly(cur, p) ==
  IF cur = NoPose THEN p
  ELSE [idx \in Indices |->
          IF p[idx] = Undefined THEN Undefined ELSE smoothLandmark(p[idx], cur[idx])]

\* smoothedPoseRef.current after the smoothing block
smooth(cur, p) ==
  IF cur = NoPose THEN p
  ELSE [idx \in Indices |->
          IF p[idx] = Undefined THEN cur[idx] ELSE smoothLandmark(p[idx], cur[idx])]

Keys == <<"horizontalScore", "shoulderTiltScore">>

\* push with the eviction test off by one
observeEarly(buffer, k, v) ==
  LET arr    == IF k \in DOMAIN buffer THEN buffer[k] ELSE << >>
      pushed == Append(arr, v)
      kept   == IF Len(pushed) >= BUFFER_SIZE THEN Tail(pushed) ELSE pushed
  IN  [j \in DOMAIN buffer \cup {k} |-> IF j = k THEN kept ELSE buffer[j]]

\* buffer[k] = buffer[k] ?? []; buffer[k].push(v); shift when too long
observe(buffer, k, v) ==
  LET arr    == IF k \in DOMAIN buffer THEN buffer[k] ELSE << >>
      pushed == Append(arr, v)
      kept   == IF Len(pushed) > BUFFER_SIZE THEN Tail(pushed) ELSE pushed
  IN  [j \in DOMAIN buffer \cup {k} |-> IF j = k THEN kept ELSE buffer[j]]

RECURSIVE observeAll(_, _, _)
observeAll(buffer, raw, i) ==
  IF i > Len(Keys) THEN buffer
  ELSE observeAll(observe(buffer, Keys[i], raw[Keys[i]]), raw, i + 1)

RECURSIVE reduceSum(_, _)
reduceSum(arr, i) == IF i > Len(arr) THEN Fin(0) ELSE Add(arr[i], reduceSum(arr, i + 1))

\* division by one less than the count
DivCountShort(a, n) ==
  CASE a.k = "nan" -> NaN
    [] a.k = "inf" -> a
    [] n - 1 = 0   -> IF a.v = 0 THEN NaN ELSE [k |-> "inf", v |-> Sign(a.v)]
    [] OTHER       -> Fin(RoundDiv(a.v, n - 1))

\* a / n for a count n
DivCount(a, n) ==
  CASE a.k = "nan" -> NaN
    [] a.k = "inf" -> a
    [] n = 0       -> IF a.v = 0 THEN NaN ELSE [k |-> "inf", v |-> Sign(a.v)]
    [] OTHER       -> Fin(RoundDiv(a.v, n))

\* the sum divided by the window size instead of the length
meanOfWindow(arr) == DivCount(reduceSum(arr, 1), BUFFER_SIZE)

\* the mean as if the buffer had been seeded with one score of 1
meanSeeded(arr) == DivCount(Add(reduceSum(arr, 1), Fin(ONE)), Len(arr) + 1)

\* arr.reduce((a, b) => a + b, 0) / arr.length
mean(arr) == DivCount(reduceSum(arr, 1), Len(arr))

avgScoresOf(buffer) == [k \in DOMAIN buffer |-> mean(buffer[k])]

\* The landmark objects the smoothed state holds after a frame p, as they
\* were delivered: the first frame's map becomes the smoothed state itself,
\* and an index new to the smoothed state stores the frame's own object.
deliveredAfter(cur, held, p) ==
  IF cur = NoPose THEN p
  ELSE [idx \in Indices |->
          IF p[idx] # Undefined /\ cur[idx] = Undefined THEN p[idx] ELSE held[idx]]

\* The body of if (pose) for the refs cur and buf of an instance: the new
\* refs and the arguments of onDebug and onScores.
processed(cur, buf, detected) ==
  LET smoothedPose == smooth(cur, detected)
      raw          == computeAllMetrics(smoothedPose)
      buffer       == observeAll(buf, raw, 1)
  IN  [ smoothedPoseRef |-> smoothedPose, raw |-> raw,
        hDebug |-> horizontalScoreDetailed(smoothedPose),
        bufferRef |-> buffer, avgScores |-> avgScoresOf(buffer) ]

\* the body of if (pose) run by the instance mounted last
onPose(detected) ==
  LET r == processed(smoothedPoseRef, bufferRef, detected)
  IN  /\ pose' = detected
      /\ smoothedPoseRef' = r.smoothedPoseRef
      /\ hDebug' = r.hDebug
      /\ bufferRef' = r.bufferRef
      /\ scores' = r.avgScores
      /\ rawLog' = Append(rawLog, r.raw)
      /\ moves' = IF pose # NoPose /\ pose # detected THEN moves + 1 ELSE moves
      /\ delivered' = deliveredAfter(smoothedPoseRef, delivered, detected)

\* an iteration that forgets the smoother state and the buffers on a frame
\* without a pose
renderLoopResetting(videoOk, detected) ==
  /\ frames' = frames + 1
  /\ IF videoOk /\ detected # NoPose
     THEN onPose(detected)
     ELSE /\ pose' = NoPose
          /\ smoothedPoseRef' = NoPose
          /\ bufferRef' = << >>
          /\ UNCHANGED <<hDebug, scores, rawLog, moves, delivered>>
  /\ UNCHANGED <<metricVars, uploadVars, appVars>>

\* One iteration of renderLoop that reaches its requestAnimationFrame, with
\* nothing else of the application running between its call of process() and
\* the rest of the iteration.  videoOk: the
\* video element is there, playing and has data; detected: what process()
\* resolves to (NoPose: no person).
renderLoop(videoOk, detected) ==
  /\ frames' = frames + 1
  /\ IF videoOk /\ detected # NoPose
     THEN onPose(detected)
     ELSE /\ pose' = NoPose
          /\ UNCHANGED <<smoothedPoseRef, hDebug, bufferRef, scores, rawLog, moves,
                         delivered>>
  /\ UNCHANGED <<metricVars, uploadVars, appVars>>

(***************************************************************************)
(* Camera sessions.                                                        *)
(***************************************************************************)
\* a session of Spec runs at most MaxFrames loop iterations
MaxFrames == 3

RECURSIVE Pow5(_)
Pow5(n) == IF n = 0 THEN 1 ELSE 5 * Pow5(n - 1)

\* raw coordinates are multiples of 5^MaxFrames, so that MaxFrames EMA steps
\* lose nothing to rounding
Grid(i) == Fin(i * Pow5(MaxFrames))

\* a fully visible landmark, one of visibility 0.2 and one without visibility
CamLandmarks ==
  { [x |-> Grid(0), y |-> Grid(0), z |-> Grid(0), visibility |-> Fin(ONE)],
    [x |-> Grid(2), y |-> Grid(1), z |-> Grid(2), visibility |-> Fin(200)],
    [x |-> Grid(2), y |-> Grid(2), z |-> Grid(1), visibility |-> Undefined] }

CamPoses == [Indices -> CamLandmarks \cup {Undefined}]

Init ==
  /\ lm = [i \in Indices |-> Undefined]
  /\ call = "none"
  /\ ret = Undefined
  /\ CameraMounted
  /\ LoopRunning
  /\ UploadIdle

Next ==
  /\ frames < MaxFrames
  /\ \E videoOk \in BOOLEAN, detected \in CamPoses \cup {NoPose} :
        renderLoop(videoOk, detected)

Spec == Init /\ [][Next]_vars

\* a session of SpecLong runs at most MaxLongFrames iterations, every frame
\* is detected, and the detected pose changes at most MaxMoves times
MaxLongFrames == 40

MaxMoves == 1

Standing(i, j) ==
  [idx \in Indices |->
     IF idx = L_SHOULDER
     THEN [x |-> Grid(i), y |-> Grid(0), z |-> Grid(0), visibility |-> Fin(ONE)]
     ELSE [x |-> Grid(0), y |-> Grid(j), z |-> Grid(1), visibility |-> Fin(ONE)]]

LongPoses == {Standing(4, 0), Standing(2, 4)}

LongNext ==
  /\ frames < MaxLongFrames
  /\ \E detected \in LongPoses :
        /\ (pose # NoPose /\ pose # detected) => moves < MaxMoves
        /\ renderLoop(TRUE, detected)

SpecLong == Init /\ [][LongNext]_vars

(***************************************************************************)
(* App: the two input modes.  CameraInput's frame loop is taken in two     *)
(* steps here, up to await process() and from there on, so that the        *)
(* effect cleanup and the mode buttons can come between them.              *)
(***************************************************************************)
\* a run of SpecApp starts at most MaxAppFrames loop iterations
MaxAppFrames == 3

\* CameraInput is mounted at most MaxMounts times
MaxMounts == 2

\* at most MaxFiles images are analysed while ImageUpload is mounted
MaxFiles == 1

\* the start of an iteration with the next frame requested before the await
beginEager(l, videoOk, n) ==
  IF videoOk THEN [pending |-> l.pending + 1, awaiting |-> l.awaiting \cup {n}]
  ELSE [l EXCEPT !.pending = @ + 1]

\* The start of iteration n: with a usable video it calls process() and
\* waits; otherwise it requests the next animation frame straight away.
begin(l, videoOk, n) ==
  IF videoOk THEN [l EXCEPT !.awaiting = @ \cup {n}]
  ELSE [l EXCEPT !.pending = @ + 1]

\* a requested animation frame is run
fired(l) == [l EXCEPT !.pending = @ - 1]

\* iteration c is through: id = requestAnimationFrame(renderLoop)
resumed(l, c) == [pending |-> l.pending + 1, awaiting |-> l.awaiting \ {c}]

\* iteration c ends without reaching requestAnimationFrame: the await of
\* process() threw, or getContext('2d') gave null and renderLoop returned
stopped(l, c) == [l EXCEPT !.awaiting = @ \ {c}]

\* cancelAnimationFrame(id): id is the frame requested last, if it has not run
cancelled(l) == [l EXCEPT !.pending = IF @ > 0 THEN @ - 1 ELSE 0]

\* what process() can resolve to in SpecApp
AppPoses == LongPoses \cup {NoPose}

\* setReady(true) in the mounted input; in CameraInput the frame-loop effect
\* then runs and calls renderLoop() itself
ModelReady ==
  /\ ~ready
  /\ ready' = TRUE
  /\ IF mode = "camera"
     THEN \E videoOk \in BOOLEAN :
            /\ frames < MaxAppFrames
            /\ frames' = frames + 1
            /\ loop' = begin(loop, videoOk, frames + 1)
            /\ pose' = IF videoOk THEN pose ELSE NoPose
     ELSE UNCHANGED <<frames, loop, pose>>
  /\ UNCHANGED <<metricVars, uploadVars, smoothedPoseRef, bufferRef, scores, hDebug, rawLog, moves,
                 delivered, mode, earlier, analyses, mounts>>

\* A requested animation frame of the instance mounted last runs renderLoop
\* up to the await.  After the unmount videoRef.current is null.
AnimationFrame ==
  /\ loop.pending > 0
  /\ frames < MaxAppFrames
  /\ \E videoOk \in (IF mode = "camera" THEN BOOLEAN ELSE {FALSE}) :
        /\ frames' = frames + 1
        /\ loop' = begin(fired(loop), videoOk, frames + 1)
        /\ pose' = IF videoOk THEN pose ELSE NoPose
  /\ UNCHANGED <<metricVars, uploadVars, smoothedPoseRef, bufferRef, scores, hDebug, rawLog, moves,
                 delivered, mode, ready, earlier, analyses, mounts>>

\* process() settles and renderLoop goes on from the await.  rejects: the
\* detection threw; noCtx: the canvas is there (the instance is mounted) and
\* its getContext('2d') gives null.
Resume ==
  /\ \E c \in loop.awaiting, detected \in AppPoses, rejects \in BOOLEAN,
        noCtx \in (IF mode = "camera" THEN BOOLEAN ELSE {FALSE}) :
        /\ IF ~rejects /\ detected # NoPose
           THEN onPose(detected)
           ELSE /\ pose' = NoPose
                /\ UNCHANGED <<smoothedPoseRef, hDebug, bufferRef, scores, rawLog, moves,
                               delivered>>
        /\ loop' = IF rejects \/ (detected # NoPose /\ noCtx)
                   THEN stopped(loop, c) ELSE resumed(loop, c)
  /\ UNCHANGED <<metricVars, uploadVars, frames, mode, ready, earlier, analyses, mounts>>

\* the same for an instance that a later mount has replaced: it works on its
\* own refs and calls the onDebug and onScores it was given, App's setters
EarlierResume ==
  /\ \E i \in 1 .. Len(earlier), detected \in AppPoses, rejects \in BOOLEAN :
        \E c \in earlier[i].loop.awaiting :
          LET e == earlier[i]
              r == processed(e.smoothedPoseRef, e.bufferRef, detected)
          IN  IF rejects
              THEN /\ earlier' = [earlier EXCEPT ![i].loop = stopped(e.loop, c)]
                   /\ UNCHANGED <<hDebug, scores>>
              ELSE IF detected # NoPose
              THEN /\ earlier' = [earlier EXCEPT ![i] =
                                    [ smoothedPoseRef |-> r.smoothedPoseRef,
                                      bufferRef |-> r.bufferRef,
                                      loop |-> resumed(e.loop, c) ]]
                   /\ hDebug' = r.hDebug
                   /\ scores' = r.avgScores
              ELSE /\ earlier' = [earlier EXCEPT ![i].loop = resumed(e.loop, c)]
                   /\ UNCHANGED <<hDebug, scores>>
  /\ UNCHANGED <<metricVars, uploadVars, smoothedPoseRef, bufferRef, pose, frames, rawLog, moves,
                 delivered, mode, ready, loop, analyses, mounts>>

\* setMode('upload'): CameraInput is unmounted (the cleanup of the frame-loop
\* effect runs if the effect had started the loop), ImageUpload is mounted
SwitchToUpload ==
  /\ mode = "camera"
  /\ mode' = "upload"
  /\ loop' = IF ready THEN cancelled(loop) ELSE loop
  /\ ready' = FALSE
  /\ analyses' = << >>
  /\ UNCHANGED <<metricVars, uploadVars, cameraVars, earlier, mounts>>

\* setMode('camera'): ImageUpload is unmounted and a new CameraInput instance
\* is mounted with refs of its own; App keeps its scores and hDebug.  The
\* instance before it is still there as long as its loop is.
SwitchToCamera ==
  /\ mode = "upload"
  /\ mounts < MaxMounts
  /\ mode' = "camera"
  /\ mounts' = mounts + 1
  /\ earlier' = IF loop = NoLoop THEN earlier
                ELSE Append(earlier, [ smoothedPoseRef |-> smoothedPoseRef,
                                       bufferRef |-> bufferRef, loop |-> loop ])
  /\ smoothedPoseRef' = NoPose
  /\ bufferRef' = << >>
  /\ pose' = NoPose
  /\ rawLog' = << >>
  /\ moves' = 0
  /\ delivered' = NoPose
  /\ loop' = NoLoop
  /\ ready' = FALSE
  /\ analyses' = << >>
  /\ UNCHANGED <<metricVars, uploadVars, scores, hDebug, frames>>

\* a selected file: the pose process() finds in it and the label ocr() reads
Files == [pose : {Standing(4, 0), NoPose}, label : {Null, Fin(ONE \div 2)}]

\* the Analysis of a file with a pose (its url left out)
analysis(file) ==
  LET sc == computeAllMetrics(file.pose)
  IN  [ scores |-> sc, debug |-> horizontalScoreDetailed(file.pose),
        landmarks |-> file.pose, manual_score |-> file.label,
        abs_error |-> IF file.label # Null
                      THEN Abs(Sub(file.label, sc["horizontalScore"])) ELSE Null ]

RECURSIVE analysed(_, _, _)
analysed(prev, files, i) ==
  IF i > Len(files) THEN prev
  ELSE analysed(IF files[i].pose = NoPose THEN prev ELSE Append(prev, analysis(files[i])),
                files, i + 1)

\* handleChange with the selected files
handleChange(files) ==
  /\ mode = "upload"
  /\ ready
  /\ analyses' = analysed(analyses, files, 1)
  /\ UNCHANGED <<metricVars, uploadVars, cameraVars, mode, ready, loop, earlier, mounts>>

HandleChange ==
  \E n \in 1 .. MaxFiles :
    /\ Len(analyses) + n <= MaxFiles
    /\ \E files \in [1 .. n -> Files] : handleChange(files)

AppInit ==
  /\ lm = [i \in Indices |-> Undefined]
  /\ call = "none"
  /\ ret = Undefined
  /\ CameraMounted
  /\ AppMounted
  /\ UploadIdle

AppNext ==
  \/ ModelReady
  \/ AnimationFrame
  \/ Resume
  \/ EarlierResume
  \/ SwitchToUpload
  \/ SwitchToCamera
  \/ HandleChange

SpecApp == AppInit /\ [][AppNext]_vars

(***************************************************************************)
(* lib/labelParser.  A string is a sequence of one-character strings; a    *)
(* label is a number counted in 1 / ONE.                                   *)
(***************************************************************************)
Digits == <<"0", "1", "2", "3", "4", "5", "6", "7", "8", "9">>

\* [0-9]
IsDigit(ch) == \E d \in 1 .. Len(Digits) : Digits[d] = ch

\* +ch for a digit
DigitValue(ch) == CHOOSE d \in 0 .. 9 : Digits[d + 1] = ch

\* the alias table without the two punctuation look-alikes
aliasLettersOnly(ch) ==
  CASE ch \in {"I", "i", "l"} -> "1"
    [] ch \in {"O", "o"}      -> "0"
    [] OTHER                  -> ch

\* ALIAS[ch] ?? ch
ALIAS(ch) ==
  CASE ch \in {"I", "i", "l", "|", "!"} -> "1"
    [] ch \in {"O", "o"}                -> "0"
    [] OTHER                            -> ch

\* str.replace(',', '.'): the first comma only
replaceComma(str) ==
  IF \E i \in 1 .. Len(str) : str[i] = ","
  THEN LET first == CHOOSE i \in 1 .. Len(str) :
                      str[i] = "," /\ \A j \in 1 .. i - 1 : str[j] # ","
       IN  [str EXCEPT ![first] = "."]
  ELSE str

RECURSIVE trimStart(_)
trimStart(str) ==
  IF Len(str) > 0 /\ Head(str) = " " THEN trimStart(Tail(str)) ELSE str

RECURSIVE trimEnd(_)
trimEnd(str) ==
  IF Len(str) > 0 /\ str[Len(str)] = " "
  THEN trimEnd(SubSeq(str, 1, Len(str) - 1)) ELSE str

\* str.trim()
trim(str) == trimEnd(trimStart(str))

norm(str) ==
  LET dotted == replaceComma(str)
  IN  trim([i \in 1 .. Len(str) |-> ALIAS(dotted[i])])

\* /^0+(\.0+)?$/
matchesZero(tok) ==
  \E n \in 1 .. Len(tok) :
    /\ \A i \in 1 .. n : tok[i] = "0"
    /\ \/ n = Len(tok)
       \/ /\ n + 2 <= Len(tok)
          /\ tok[n + 1] = "."
          /\ \A i \in n + 2 .. Len(tok) : tok[i] = "0"

\* /^0\.[0-9]$/
matchesOneDecimal(tok) ==
  Len(tok) = 3 /\ tok[1] = "0" /\ tok[2] = "." /\ IsDigit(tok[3])

\* /^0[0-9]$/
matchesZeroDigit(tok) == Len(tok) = 2 /\ tok[1] = "0" /\ IsDigit(tok[2])

\* /^[2-9][0-9]*$/
matchesDigits(tok) ==
  /\ Len(tok) >= 1
  /\ \A i \in 1 .. Len(tok) : IsDigit(tok[i])
  /\ DigitValue(tok[1]) >= 2

\* d / 10
Tenths(d) == Fin(d * (ONE \div 10))

parseLabelToken(str) ==
  LET tok == norm(str)
  IN  IF Len(tok) = 0 THEN Null
      ELSE IF matchesZero(tok) THEN Fin(0)
      ELSE IF tok[1] = "1" THEN Fin(ONE)
      ELSE IF matchesOneDecimal(tok) THEN Tenths(DigitValue(tok[3]))
      ELSE IF matchesZeroDigit(tok) THEN Tenths(DigitValue(tok[2]))
      ELSE IF matchesDigits(tok) THEN Tenths(DigitValue(tok[1]))
      ELSE Null

\* tokens have at most MaxTokenLen characters
MaxTokenLen == 3

\* the characters the parser tells apart: digits, separators, the look-alikes
\* of the alias table, a blank and a letter it does not know
Chars == {"0", "1", "4", "7", ".", ",", "I", "i", "l", "|", "!", "O", "o", " ", "x"}

Tokens == UNION { [1 .. n -> Chars] : n \in 0 .. MaxTokenLen }

LabelInit ==
  /\ lm = [i \in Indices |-> Undefined]
  /\ call = "none"
  /\ ret = Undefined
  /\ CameraMounted
  /\ AppMounted
  /\ token \in Tokens
  /\ ImageUploadFresh

CallParseLabelToken ==
  /\ call = "none"
  /\ call' = "parseLabelToken"
  /\ ret' = parseLabelToken(token)
  /\ UNCHANGED <<lm, cameraVars, appVars, uploadVars>>

LabelNext == CallParseLabelToken

SpecLabel == LabelInit /\ [][LabelNext]_vars

(***************************************************************************)
(* lib/openaiClient and ImageUpload with its two hooks, usePoseLandmarker  *)
(* and useOcrLabel.  Each await of the loading function and of             *)
(* handleChange is a point where the other callbacks run.                  *)
(***************************************************************************)
\* the reply "none"
None == <<"n", "o", "n", "e">>

\* the value of a call that threw
Thrown == [k |-> "thrown", v |-> 0]

\* What the request of openaiExtractLabel meets: "rejected" is an exception
\* of bitmapToDataUrl, fetch, resp.text or resp.json; "status" a response
\* that is not ok; "nocontent" a reply without choices[0].message.content;
\* "ok" a reply with that content.
Replies ==
  [outcome : {"rejected", "status", "nocontent"}, content : {<< >>}]
    \cup [outcome : {"ok"}, content : {None, <<"0", ".", "4">>, <<"x">>}]

\* openaiExtractLabel without its catch
openaiExtractLabelUncaught(reply) ==
  IF reply.outcome = "rejected" THEN Thrown
  ELSE IF reply.outcome = "status" THEN Null
  ELSE LET content == IF reply.outcome = "nocontent" THEN None
                      ELSE trim(reply.content)
       IN  IF content = None THEN Null ELSE parseLabelToken(content)

openaiExtractLabel(reply) ==
  IF reply.outcome = "rejected" THEN Null
  ELSE IF reply.outcome = "status" THEN Null
  ELSE LET content == IF reply.outcome = "nocontent" THEN None
                      ELSE trim(reply.content)
       IN  IF content = None THEN Null ELSE parseLabelToken(content)

\* the try / finally of recognise passes the value or the exception on
recognise(reply) == openaiExtractLabel(reply)

\* ImageUpload mounted by itself
UploadInit ==
  /\ lm = [i \in Indices |-> Undefined]
  /\ call = "none"
  /\ ret = Undefined
  /\ CameraMounted
  /\ mode = "upload"
  /\ ready = FALSE
  /\ loop = NoLoop
  /\ earlier = << >>
  /\ analyses = << >>
  /\ mounts = 0
  /\ UploadIdle

\* One await of the loading function resolves.  The cancelled flag is read
\* once, before createFromOptions is called, and again before setReady.
LoadResolves ==
  /\ hook.load \in {"import", "fileset", "create"}
  /\ hook' = CASE hook.load = "import" -> [hook EXCEPT !.load = "fileset"]
               [] hook.load = "fileset" ->
                    [hook EXCEPT !.load = IF hook.cancelled THEN "returned" ELSE "create"]
               [] hook.load = "create" ->
                    [hook EXCEPT !.load = "returned", !.landmarkerRef = TRUE,
                                 !.landmarker = "open"]
  /\ ready' = IF hook.load = "create" /\ ~hook.cancelled THEN TRUE ELSE ready
  /\ UNCHANGED <<metricVars, cameraVars, mode, loop, earlier, analyses, mounts,
                 token, loading, handlers>>

\* One await of the loading function rejects.
LoadRejects ==
  /\ hook.load \in {"import", "fileset", "create"}
  /\ hook' = [hook EXCEPT !.load = "failed"]
  /\ UNCHANGED <<metricVars, cameraVars, appVars, token, loading, handlers>>

\* The cleanup of the effect, when ImageUpload is unmounted.
Cleanup ==
  /\ mode = "upload"
  /\ mode' = "camera"
  /\ hook' = [hook EXCEPT !.cancelled = TRUE, !.landmarkerRef = FALSE,
                          !.landmarker = IF hook.landmarkerRef THEN "closed"
                                         ELSE hook.landmarker]
  /\ UNCHANGED <<metricVars, cameraVars, ready, loop, earlier, analyses, mounts,
                 token, loading, handlers>>

\* process of the render at which ready was r, for an image showing detected
process(r, detected) ==
  IF ~r \/ ~hook.landmarkerRef THEN NoPose ELSE detected

\* the invocation after its current file
nextFile(inv) ==
  IF inv.left > 1 THEN [NotCalled EXCEPT !.pc = "image", !.left = inv.left - 1]
  ELSE [NotCalled EXCEPT !.pc = "done"]

\* handleChange is called with n files: it returns at once unless ready.
HandleChangeCalled ==
  \E h \in 1 .. MaxHandlers, n \in 1 .. MaxFiles :
    /\ mode = "upload"
    /\ handlers[h].pc = "idle"
    /\ \A g \in 1 .. h - 1 : handlers[g].pc # "idle"
    /\ handlers' = [handlers EXCEPT ![h] =
                      IF ready THEN [NotCalled EXCEPT !.pc = "image", !.left = n]
                      ELSE [NotCalled EXCEPT !.pc = "done"]]
    /\ UNCHANGED <<metricVars, cameraVars, appVars, token, hook, loading>>

\* The image and its bitmap are there: process is called, and with a pose
\* recognise is called, which sets the loading flag and sends the request.
ImageLoaded ==
  \E h \in 1 .. MaxHandlers, file \in [pose : {Standing(4, 0), NoPose}, reply : Replies] :
    /\ handlers[h].pc = "image"
    /\ LET found == process(TRUE, file.pose)
       IN  IF found = NoPose
           THEN /\ handlers' = [handlers EXCEPT ![h] = nextFile(handlers[h])]
                /\ UNCHANGED loading
           ELSE /\ handlers' = [handlers EXCEPT ![h] =
                                  [handlers[h] EXCEPT !.pc = "ocr", !.pose = found,
                                                      !.reply = file.reply]]
                /\ loading' = IF mode = "upload" THEN TRUE ELSE loading
    /\ UNCHANGED <<metricVars, cameraVars, appVars, token, hook>>

\* recognise settles: its finally clears the loading flag; with a value the
\* analysis is appended, with an exception handleChange ends.
Recognised ==
  \E h \in 1 .. MaxHandlers :
    /\ handlers[h].pc = "ocr"
    /\ LET manual_score == recognise(handlers[h].reply)
       IN  /\ loading' = IF mode = "upload" THEN FALSE ELSE loading
           /\ IF manual_score = Thrown
              THEN /\ handlers' = [handlers EXCEPT ![h] = [NotCalled EXCEPT !.pc = "done"]]
                   /\ UNCHANGED analyses
              ELSE /\ handlers' = [handlers EXCEPT ![h] = nextFile(handlers[h])]
                   /\ analyses' =
                        IF mode = "upload"
                        THEN Append(analyses, analysis([pose  |-> handlers[h].pose,
                                                        label |-> manual_score]))
                        ELSE analyses
    /\ UNCHANGED <<metricVars, cameraVars, mode, ready, loop, earlier, mounts,
                   token, hook>>

UploadNext ==
  \/ LoadResolves
  \/ LoadRejects
  \/ Cleanup
  \/ HandleChangeCalled
  \/ ImageLoaded
  \/ Recognised

SpecUpload == UploadInit /\ [][UploadNext]_vars

(***************************************************************************)
(* Properties of the scoring functions (checked under SpecMetrics).        *)
(***************************************************************************)
Present(i) == lm[i] # Undefined

\* visibility with the default applied
VisOf(i) == IF lm[i].visibility = Undefined THEN ONE ELSE lm[i].visibility.v

Usable(i) == Present(i) /\ VisOf(i) > VIS_THRESHOLD

BothUsable == Usable(L_SHOULDER) /\ Usable(R_SHOULDER)

ValidLandmark(i) ==
  /\ Present(i)
  /\ lm[i].x.k = "fin" /\ lm[i].y.k = "fin" /\ lm[i].z.k = "fin"
  /\ VisOf(i) >= 0 /\ VisOf(i) <= ONE

ValidPose == ValidLandmark(L_SHOULDER) /\ ValidLandmark(R_SHOULDER)

InUnitInterval(a) == a.k = "fin" /\ a.v >= 0 /\ a.v <= ONE

ScoreCalls == {"horizontalScore", "shoulderTiltScore", "shoulderSquareness"}

\* C1: for a pose whose two shoulders have finite x, y, z and a visibility
\* that is absent or in [0,1], horizontalScore, shoulderTiltScore and
\* shoulderSquareness return a number in [0,1], never NaN.
C1_ScoresInUnitInterval ==
  (call \in ScoreCalls /\ ValidPose) => InUnitInterval(ret)

C1_Witness ==
  /\ call = "horizontalScore" /\ ValidPose
  /\ ret.k = "fin" /\ ret.v > 0 /\ ret.v < ONE

BlankFields(r) ==
  /\ r.score = Fin(0) /\ r.angleDeg = Fin(90)
  /\ r.dx = Fin(0) /\ r.dz = Fin(0) /\ r.visSym = Fin(0)

\* C2: if a shoulder is absent or has visibility <= 0.3 (an absent visibility
\* counting as 1), horizontalScoreDetailed returns the blank record
\* score=0, angleDeg=90, dx=0, dz=0, visSym=0 and shoulderTiltScore returns 0.
C2_UnusableGivesSentinel ==
  ~BothUsable =>
    /\ call = "horizontalScoreDetailed" => BlankFields(ret)
    /\ call = "shoulderTiltScore" => ret = Fin(0)

\* a shoulder at exactly the threshold, the other one fully usable and apart
C2_Witness ==
  /\ call = "horizontalScoreDetailed"
  /\ Present(L_SHOULDER) /\ Usable(R_SHOULDER)
  /\ lm[L_SHOULDER].visibility = Fin(VIS_THRESHOLD)
  /\ lm[L_SHOULDER].x.k = "fin" /\ lm[R_SHOULDER].x.k = "fin"
  /\ lm[L_SHOULDER].x.v - lm[R_SHOULDER].x.v >= EPSILON
  /\ lm[R_SHOULDER].visibility = Undefined
  /\ BlankFields(ret)

\* finite differences of the two shoulders (0 when a coordinate is not finite)
Delta(f) ==
  IF lm[L_SHOULDER][f].k = "fin" /\ lm[R_SHOULDER][f].k = "fin"
  THEN lm[L_SHOULDER][f].v - lm[R_SHOULDER][f].v ELSE 0

AllFinite(f) == lm[L_SHOULDER][f].k = "fin" /\ lm[R_SHOULDER][f].k = "fin"

AbsInt(n) == IF n < 0 THEN 0 - n ELSE n

DepthNotFinite == ~AllFinite("z")

CoincideXZ ==
  /\ AllFinite("x") /\ AllFinite("z")
  /\ Delta("x") * Delta("x") + Delta("z") * Delta("z") < EPSILON * EPSILON

CoincideXY ==
  /\ AllFinite("x") /\ AllFinite("y")
  /\ AbsInt(Delta("x")) < EPSILON /\ AbsInt(Delta("y")) < EPSILON

\* the pose with both depth values replaced by 0
FlatPose ==
  [i \in Indices |-> IF lm[i] = Undefined THEN Undefined ELSE [lm[i] EXCEPT !.z = Fin(0)]]

\* C3: with both shoulders usable, coinciding shoulders (hypot(dx,dz) < 1e-6
\* for the horizontal metric, |dx| < 1e-6 and |dy| < 1e-6 for the tilt metric)
\* and, for the horizontal metric only, a non-finite depth give the sentinel
\* (blank record with score 0; tilt 0), never a NaN score; a non-finite depth
\* does not change shoulderTiltScore.
C3_DegenerateGivesSentinel ==
  BothUsable =>
    /\ (call = "horizontalScoreDetailed" /\ (DepthNotFinite \/ CoincideXZ))
          => BlankFields(ret)
    /\ (call = "shoulderTiltScore" /\ CoincideXY) => ret = Fin(0)
    /\ call = "shoulderTiltScore" => ret = shoulderTiltScore(FlatPose)

\* an infinite depth on shoulders that are apart in x
C3_Witness ==
  /\ call = "horizontalScoreDetailed" /\ BothUsable
  /\ lm[L_SHOULDER].z = PInf /\ lm[R_SHOULDER].z.k = "fin"
  /\ AllFinite("x") /\ AbsInt(Delta("x")) >= EPSILON
  /\ BlankFields(ret)

\* the pose with the landmarks of index 11 and index 12 exchanged
Swapped ==
  [i \in Indices |-> IF i = L_SHOULDER THEN lm[R_SHOULDER] ELSE lm[L_SHOULDER]]

\* C4: exchanging the landmarks stored at index 11 and index 12 leaves
\* horizontalScore, shoulderTiltScore and shoulderSquareness unchanged.
C4_SwapInvariant ==
  /\ call = "horizontalScore" => ret = horizontalScore(Swapped)
  /\ call = "shoulderTiltScore" => ret = shoulderTiltScore(Swapped)
  /\ call = "shoulderSquareness" => ret = shoulderSquareness(Swapped)

\* two different usable shoulders of different visibility, scored above 0
C4_Witness ==
  /\ call = "horizontalScore" /\ BothUsable
  /\ VisOf(L_SHOULDER) < VisOf(R_SHOULDER)
  /\ AllFinite("x") /\ Delta("x") > 0 /\ Delta("z") < 0
  /\ ret.k = "fin" /\ ret.v > 0

EqualVisibility == BothUsable /\ VisOf(L_SHOULDER) = VisOf(R_SHOULDER)

\* C5 as stated: for usable shoulders of equal visibility, dz = 0 and dx # 0
\* give horizontalScore 1 and angleDeg 0; dx = 0 and |dz| >= 1e-6 give
\* horizontalScore 0 and angleDeg 90; dy = 0 and dx # 0 give tilt 1; dx = 0 and
\* |dy| >= 1e-6 give tilt 0; dz = 0, dy = 0 and dx # 0 give squareness 1.
C5_AsStated ==
  (EqualVisibility /\ AllFinite("x") /\ AllFinite("z")) =>
    /\ (call = "horizontalScoreDetailed" /\ Delta("z") = 0 /\ Delta("x") # 0)
          => (ret.score = Fin(ONE) /\ ret.angleDeg = Fin(0))
    /\ (call = "horizontalScoreDetailed" /\ Delta("x") = 0 /\ AbsInt(Delta("z")) >= EPSILON)
          => (ret.score = Fin(0) /\ ret.angleDeg = Fin(90))
    /\ (call = "shoulderTiltScore" /\ Delta("y") = 0 /\ Delta("x") # 0)
          => ret = Fin(ONE)
    /\ (call = "shoulderTiltScore" /\ Delta("x") = 0 /\ AbsInt(Delta("y")) >= EPSILON)
          => ret = Fin(0)
    /\ (call = "shoulderSquareness" /\ Delta("z") = 0 /\ Delta("y") = 0 /\ Delta("x") # 0)
          => ret = Fin(ONE)

\* C5 (amended): the same with |dx| >= 1e-6 in place of dx # 0: shoulders
\* closer than 1e-6 are degenerate and score 0.
C5_FrontalAndProfile ==
  (EqualVisibility /\ AllFinite("x") /\ AllFinite("z")) =>
    /\ (call = "horizontalScoreDetailed" /\ Delta("z") = 0 /\ AbsInt(Delta("x")) >= EPSILON)
          => (ret.score = Fin(ONE) /\ ret.angleDeg = Fin(0))
    /\ (call = "horizontalScoreDetailed" /\ Delta("x") = 0 /\ AbsInt(Delta("z")) >= EPSILON)
          => (ret.score = Fin(0) /\ ret.angleDeg = Fin(90))
    /\ (call = "shoulderTiltScore" /\ Delta("y") = 0 /\ AbsInt(Delta("x")) >= EPSILON)
          => ret = Fin(ONE)
    /\ (call = "shoulderTiltScore" /\ Delta("x") = 0 /\ AbsInt(Delta("y")) >= EPSILON)
          => ret = Fin(0)
    /\ (call = "shoulderSquareness" /\ Delta("z") = 0 /\ Delta("y") = 0
          /\ AbsInt(Delta("x")) >= EPSILON)
          => ret = Fin(ONE)

\* shoulders exactly 1e-6 apart in x and level in depth, scored 1 at 0 degrees
C5_Witness ==
  /\ call = "horizontalScoreDetailed" /\ EqualVisibility
  /\ AllFinite("x") /\ AllFinite("z")
  /\ Delta("z") = 0 /\ AbsInt(Delta("x")) = EPSILON
  /\ ret.score = Fin(ONE) /\ ret.angleDeg = Fin(0)

MinInt(a, b) == IF a < b THEN a ELSE b

MaxInt(a, b) == IF a > b THEN a ELSE b

\* C16: shoulderSquareness is sqrt(horizontalScore * shoulderTiltScore): never
\* NaN (0 is returned instead), 0 whenever either score is 0, between the
\* smaller and the larger of the two scores when both are numbers, and its
\* square is the product of the two scores when that product is not negative.
C16_GeometricMean ==
  call = "shoulderSquareness" =>
    LET yaw  == horizontalScore(lm)
        roll == shoulderTiltScore(lm)
    IN  /\ ret.k = "fin"
        /\ (yaw = Fin(0) \/ roll = Fin(0)) => ret = Fin(0)
        /\ (yaw.k = "fin" /\ roll.k = "fin") =>
              /\ MinInt(yaw.v, roll.v) <= ret.v
              /\ ret.v <= MaxInt(yaw.v, roll.v)
              /\ yaw.v * roll.v >= 0 =>
                    \* ret is sqrt(yaw * roll) up to the rounding of one unit
                    /\ ret.v * ret.v <= yaw.v * roll.v + ONE
                    /\ (ret.v + 1) * (ret.v + 1) >= yaw.v * roll.v - ONE
        /\ (yaw.k # "fin" \/ roll.k # "fin") => ret = Fin(0)

\* two different positive scores with the squareness strictly between them
C16_Witness ==
  /\ call = "shoulderSquareness" /\ BothUsable
  /\ horizontalScore(lm).k = "fin" /\ shoulderTiltScore(lm).k = "fin"
  /\ MinInt(horizontalScore(lm).v, shoulderTiltScore(lm).v) > 0
  /\ MinInt(horizontalScore(lm).v, shoulderTiltScore(lm).v) < ret.v
  /\ ret.v < MaxInt(horizontalScore(lm).v, shoulderTiltScore(lm).v)

\* the echo of a shoulder: its x, y, z and its visibility, 0 when absent
Echo(l) ==
  [x |-> l.x, y |-> l.y, z |-> l.z,
   v |-> IF l.visibility = Undefined THEN Fin(0) ELSE l.visibility]

Processed == frames' = frames + 1 /\ pose' # NoPose

Axes == {"x", "y", "z"}

UnusableInFrame(i) ==
  pose[i] # Undefined /\ pose[i].visibility # Undefined
    /\ pose[i].visibility.v <= VIS_THRESHOLD

\* C7: after every smoother update the visibility of each index present in
\* the raw frame equals that frame's visibility, so a shoulder whose raw
\* visibility is <= 0.3 is scored as unusable in the same frame.
C7_VisibilityFromFrame ==
  pose # NoPose =>
    /\ \A idx \in Indices :
         pose[idx] # Undefined => smoothedPoseRef[idx].visibility = pose[idx].visibility
    /\ (UnusableInFrame(L_SHOULDER) \/ UnusableInFrame(R_SHOULDER)) => BlankFields(hDebug)

\* C8: an index absent from a detected frame keeps its smoothed landmark
\* unchanged, and what is scored after each update is the full smoothed state.
C8_AbsentIndexKept ==
  [][ Processed =>
        /\ smoothedPoseRef # NoPose =>
             \A idx \in Indices :
               pose'[idx] = Undefined => smoothedPoseRef'[idx] = smoothedPoseRef[idx]
        /\ hDebug' = horizontalScoreDetailed(smoothedPoseRef')
        /\ rawLog'[Len(rawLog')] = computeAllMetrics(smoothedPoseRef') ]_vars

\* the right shoulder is missing from the last frame and still scored
C8_Witness ==
  /\ Len(rawLog) >= 2 /\ pose # NoPose
  /\ pose[R_SHOULDER] = Undefined /\ smoothedPoseRef[R_SHOULDER] # Undefined
  /\ hDebug.score.v > 0

\* the i-th of the last min(n, BUFFER_SIZE) raw scores of metric k
Recent(k, i) ==
  rawLog[Len(rawLog) - MinInt(Len(rawLog), BUFFER_SIZE) + i][k]

\* C9: each metric's buffer holds at most 30 entries, exactly the most recent
\* min(n,30) raw scores of the metric in insertion order; buffers are created
\* on the first observation and observing one metric leaves the other alone.
C9_BufferIsRecentWindow ==
  /\ DOMAIN bufferRef = IF Len(rawLog) = 0 THEN {} ELSE {Keys[i] : i \in 1 .. Len(Keys)}
  /\ \A k \in DOMAIN bufferRef :
       /\ Len(bufferRef[k]) <= 30
       /\ Len(bufferRef[k]) = MinInt(Len(rawLog), BUFFER_SIZE)
       /\ \A i \in 1 .. Len(bufferRef[k]) : bufferRef[k][i] = Recent(k, i)
       /\ \A j \in DOMAIN bufferRef \ {k} : observe(bufferRef, k, Fin(0))[j] = bufferRef[j]

\* two entries have been evicted and the window holds different scores
C9_Witness ==
  /\ Len(rawLog) = BUFFER_SIZE + 2
  /\ Len(bufferRef["horizontalScore"]) = BUFFER_SIZE
  /\ bufferRef["horizontalScore"][1] = rawLog[3]["horizontalScore"]
  /\ bufferRef["horizontalScore"][1] # rawLog[1]["horizontalScore"]
  /\ bufferRef["horizontalScore"][1] # bufferRef["horizontalScore"][BUFFER_SIZE]

RECURSIVE SumRaw(_, _, _)
SumRaw(k, from, to) ==
  IF from > to THEN 0 ELSE rawLog[from][k].v + SumRaw(k, from + 1, to)

\* v is sum / count rounded to the unit of the scores
IsMean(v, sum, count) == 2 * AbsInt(count * v - sum) <= count

\* C10: the score emitted for a metric after its n-th observation is the
\* arithmetic mean of its last min(n,30) raw scores.
C10_EmittedIsWindowMean ==
  Len(rawLog) > 0 =>
    \A k \in {"horizontalScore", "shoulderTiltScore"} :
      LET n == Len(rawLog)
          m == MinInt(n, 30)
      IN  /\ scores[k].k = "fin"
          /\ IsMean(scores[k].v, SumRaw(k, n - m + 1, n), m)

\* after 40 samples: the mean of samples 11..40 and not that of samples 1..30
C10_Witness ==
  /\ Len(rawLog) = 40
  /\ IsMean(scores["horizontalScore"].v, SumRaw("horizontalScore", 11, 40), 30)
  /\ ~IsMean(scores["horizontalScore"].v, SumRaw("horizontalScore", 1, 30), 30)

\* C11: whatever the frames were (detected or not, shoulders missing or
\* coinciding), every value passed to onScores is a number in [0,1], never
\* NaN, and every buffer a mean is taken of holds at least one entry.
C11_EmittedScoresInRange ==
  scores # Null =>
    /\ DOMAIN scores = DOMAIN bufferRef
    /\ \A k \in DOMAIN scores :
         /\ Len(bufferRef[k]) >= 1
         /\ InUnitInterval(scores[k])

\* an undetected frame, a frame scoring 0 and a frame scoring above 0 have
\* been seen; the emitted mean lies strictly between 0 and 1
C11_Witness ==
  /\ frames = MaxFrames /\ Len(rawLog) = 2
  /\ \E i \in 1 .. 2 : rawLog[i]["horizontalScore"] = Fin(0)
  /\ scores["horizontalScore"].v > 0 /\ scores["horizontalScore"].v < ONE

C14_DeliveredFramesUntouched ==
  delivered # NoPose =>
    \A idx \in Indices :
      delivered[idx] # Undefined => smoothedPoseRef[idx] = delivered[idx]

(***************************************************************************)
(* Properties of the two input modes (checked under SpecApp).              *)
(***************************************************************************)
\* C12: on the first detected frame of a fresh camera session the scores
\* passed to onScores equal computeAllMetrics of that raw frame, which is
\* what the still-image pipeline records for the same landmarks.
C12_FirstFrameAsStillImage ==
  [][ /\ (rawLog = << >> /\ rawLog' # << >>) =>
           /\ scores' = computeAllMetrics(pose')
           /\ scores' = analysis([pose |-> pose', label |-> Null]).scores
           /\ hDebug' = analysis([pose |-> pose', label |-> Null]).debug
      /\ Len(analyses') > Len(analyses) =>
           LET a == analyses'[Len(analyses')]
           IN  a.scores = computeAllMetrics(a.landmarks) ]_vars

\* the first detected frame of the second camera session has been scored
C12_Witness ==
  /\ mounts = 2 /\ mode = "camera" /\ Len(rawLog) = 1 /\ pose # NoPose
  /\ earlier = << >>
  /\ scores = computeAllMetrics(pose)
  /\ scores["horizontalScore"].v > 0 /\ scores["horizontalScore"].v < ONE

\* C13: every camera session starts with an empty smoother and empty
\* buffers, image-upload scoring never touches them, and the scores shown in
\* camera mode come from the mounted session alone: none are shown before
\* its first detected frame, and afterwards they are the means of its buffers.
C13_SessionsShareNothing ==
  [][ /\ (mode = "upload" /\ mode' = "camera") =>
           (smoothedPoseRef' = NoPose /\ bufferRef' = << >>)
      /\ analyses' # analyses => UNCHANGED <<smoothedPoseRef, bufferRef, earlier>>
      /\ (mode' = "camera" /\ scores' # Null) =>
           (rawLog' # << >> /\ scores' = avgScoresOf(bufferRef')) ]_vars

\* requested frames and waiting iterations of one frame loop
InFlight(l) == l.pending + Cardinality(l.awaiting)

\* C17: in every camera session at most one loop iteration is in flight (a
\* requested frame or an iteration waiting for process(), never both and
\* never two), and a frame is applied to smoother and buffers only when it is
\* the one captured last and nothing else of the session is outstanding; the
\* next frame is requested with that update done, if it is requested at all.
C17_OneFrameAtATime ==
  [][ /\ InFlight(loop') <= 1
      /\ \A i \in 1 .. Len(earlier') : InFlight(earlier'[i].loop) <= 1
      /\ (mode = "camera" /\ rawLog' # rawLog) =>
           /\ loop = [pending |-> 0, awaiting |-> {frames}]
           /\ loop' \in {[pending |-> 1, awaiting |-> {}], NoLoop}
           /\ Len(rawLog') = Len(rawLog) + 1 ]_vars

\* two frames of one session have been applied one after the other
C17_Witness ==
  /\ mode = "camera" /\ mounts = 1 /\ Len(rawLog) = 2
  /\ rawLog[1] # rawLog[2]
  /\ loop = [pending |-> 1, awaiting |-> {}]

\* C18: once the frame loop of a camera session has been cancelled (the
\* session is unmounted), it changes neither smoother nor buffers, calls
\* neither onScores nor onDebug, and requests no animation frame, also if it
\* was waiting for process() when it was cancelled.
C18_CancelledLoopStops ==
  [][ /\ (mode = "upload" /\ mode' = "upload") =>
           /\ UNCHANGED <<smoothedPoseRef, bufferRef, scores, hDebug>>
           /\ loop'.pending <= loop.pending
      /\ \A i \in 1 .. Len(earlier) : earlier'[i] = earlier[i] ]_vars

(***************************************************************************)
(* Properties of the label parser (checked under SpecLabel).               *)
(***************************************************************************)
\* the token without its leading blanks
Inked == IF \E i \in 1 .. Len(token) : token[i] # " "
         THEN SubSeq(token, CHOOSE i \in 1 .. Len(token) :
                            token[i] # " " /\ \A j \in 1 .. i - 1 : token[j] = " ",
                     Len(token))
         ELSE << >>

\* the token without its leading and trailing blanks
Bare == IF Inked = << >> THEN << >>
        ELSE SubSeq(Inked, 1, CHOOSE i \in 1 .. Len(Inked) :
                                 Inked[i] # " " /\ \A j \in i + 1 .. Len(Inked) : Inked[j] = " ")

C22_FailedExtractionStillAnalysed ==
  [][ \A h \in 1 .. MaxHandlers :
        (mode = "upload" /\ handlers[h].pc = "ocr" /\ handlers'[h] # handlers[h]) =>
          LET reply == handlers[h].reply
              a     == analyses'[Len(analyses')]
          IN  /\ Len(analyses') = Len(analyses) + 1
              /\ SubSeq(analyses', 1, Len(analyses)) = analyses
              /\ a.landmarks = handlers[h].pose
              /\ (reply.outcome \in {"rejected", "status", "nocontent"} \/ reply.content = None)
                   => a.manual_score = Null
              /\ reply.content = <<"0", ".", "4">> => a.manual_score = Fin(400)
              /\ a.manual_score = Null => a.abs_error = Null
              /\ a.manual_score # Null =>
                   a.abs_error = Abs(Sub(a.manual_score, a.scores["horizontalScore"])) ]_vars

\* an image without a label and an image with one have both been analysed
C22_Witness ==
  /\ Len(analyses) = 2
  /\ analyses[1].manual_score = Null /\ analyses[1].abs_error = Null
  /\ analyses[2].manual_score = Fin(400) /\ analyses[2].abs_error.k = "fin"
  /\ analyses[2].abs_error.v > 0

\* C25: while ImageUpload is mounted, the loading flag of useOcrLabel is true
\* exactly when at least one recognise call is in flight.
C25_LoadingWhileInFlight ==
  mode = "upload" => (loading <=> \E h \in 1 .. MaxHandlers : handlers[h].pc = "ocr")

\* C26: once the cleanup of usePoseLandmarker has run, landmarkerRef holds no
\* landmarker and no landmarker that was created is left open.
C26_NothingHeldAfterCleanup ==
  hook.cancelled => (~hook.landmarkerRef /\ hook.landmarker # "open")

(***************************************************************************)
(* Frames without a pose (checked under Spec).                             *)
(***************************************************************************)
\* C24: an iteration without a detected pose (no detection, or the video not
\* playing or not ready) leaves the smoother state and every score buffer as
\* they were and calls neither onScores nor onDebug; an iteration with a pose
\* smooths and averages with the state the iteration before it left, gap or
\* not.
C24_GapLeavesStateAlone ==
  [][ /\ (frames' = frames + 1 /\ pose' = NoPose) =>
            UNCHANGED <<smoothedPoseRef, bufferRef, scores, hDebug, rawLog>>
      /\ (frames' = frames + 1 /\ pose' # NoPose) =>
            /\ smoothedPoseRef' = smooth(smoothedPoseRef, pose')
            /\ bufferRef' = observeAll(bufferRef, computeAllMetrics(smoothedPoseRef'), 1)
            /\ scores' = avgScoresOf(bufferRef')
            /\ Len(rawLog') = Len(rawLog) + 1 ]_vars

\* a frame without a pose has followed a scored frame
C24_Witness ==
  /\ frames = 2 /\ pose = NoPose
  /\ Len(rawLog) = 1 /\ smoothedPoseRef # NoPose /\ scores # Null
  /\ DOMAIN bufferRef # {}

\* C23: while the camera session is mounted with its loop started, the loop
\* always has an iteration waiting for process() or an animation frame
\* requested: no iteration ends without scheduling the next one.
C23_LoopNeverStops ==
  (mode = "camera" /\ ready) => InFlight(loop) >= 1

====
